---- MODULE Spec2Model ----
(***************************************************************************)
(* zenml/core/steps/trainer/base_trainer.py: BaseTrainerStep.              *)
(*                                                                         *)
(* The state is a small Python object world: the trainer step instances    *)
(* with their six fields, the heap of dict objects (a schema is a          *)
(* reference to a dict), the callable the caller holds after get_run_fn,   *)
(* and a record of the last call (what was called, which body ran, what it *)
(* returned, whether it raised).                                           *)
(*                                                                         *)
(* A path is the sequence of its characters.  posixpath tells only the     *)
(* separator from the other characters, so a non-separator element stands  *)
(* for one or more characters of a name ("model", "logs").                 *)
(***************************************************************************)
EXTENDS Integers, Sequences, FiniteSets, TLC

VARIABLES steps, heap, held, last

vars == <<steps, heap, held, last>>

---------------------------------------------------------------------------
(* Bounds *)

\* longest serving_model_dir (in path elements) the path specification draws
MaxLen == 6

---------------------------------------------------------------------------
(* Python values *)

\* Python's None, and a value that is not None: an optional field holds
\* None or Some(v), so that the empty string is not None.
None == << >>

Some(v) == << v >>

IsNone(x) == x = None

Val(x) == x[1]

\* os.sep on POSIX
sep == "/"

\* the literal 'logs' of the constructor
logs == << "logs" >>

\* the elements paths are written with
PathChars == { sep, "a", "b", "model" }

RECURSIVE SeqsUpTo(_, _)
SeqsUpTo(S, n) ==
    IF n = 0 THEN { << >> }
    ELSE LET shorter == SeqsUpTo(S, n - 1)
         IN  shorter \cup { Append(s, c) : s \in { t \in shorter : Len(t) = n - 1 }, c \in S }

\* every path of at most MaxLen elements
Paths == SeqsUpTo(PathChars, MaxLen)

\* the serving_model_dir values the object specification draws:
\* "", "model", "/a/b/model", "/a/b/model/"
SamplePaths ==
    { << >>,
      << "model" >>,
      << sep, "a", sep, "b", sep, "model" >>,
      << sep, "a", sep, "b", sep, "model", sep >> }

\* the serving_model_dir values two steps are constructed with
PairPaths ==
    { << "model" >>,
      << sep, "a", sep, "model" >> }

---------------------------------------------------------------------------
(* posixpath, as the constructor calls it *)

\* str.startswith(sep) / str.endswith(sep)
startswith(p, c) == Len(p) > 0 /\ p[1] = c

endswith(p, c) == Len(p) > 0 /\ p[Len(p)] = c

\* p.rfind(sep) + 1: the position after the last separator, 0 when none
rfind1(p) ==
    LET at == { k \in 1..Len(p) : p[k] = sep }
    IN  IF at = {} THEN 0 ELSE CHOOSE k \in at : \A j \in at : j <= k

\* head == sep * len(head)
AllSeps(p) == \A k \in 1..Len(p) : p[k] = sep

\* str.rstrip(sep)
RECURSIVE rstrip(_)
rstrip(p) ==
    IF endswith(p, sep) THEN rstrip(SubSeq(p, 1, Len(p) - 1)) ELSE p

\* posixpath.dirname
dirname(p) ==
    LET head == SubSeq(p, 1, rfind1(p))
    IN  IF head # << >> /\ ~AllSeps(head) THEN rstrip(head) ELSE head

\* a plausible slip: plain concatenation, without the separator
join_concat(a, b) == a \o b

\* posixpath.join(a, b), for one second argument
join(a, b) ==
    IF startswith(b, sep) THEN b
    ELSE IF a = << >> \/ endswith(a, sep) THEN a \o b
    ELSE a \o << sep >> \o b

---------------------------------------------------------------------------
(* The object world *)

\* the step instances the client may construct
StepIds == { 1, 2 }

\* BaseTrainerStep itself and a subclass that overrides run_fn only
BaseClass == "BaseTrainerStep"

CustomClass == "CustomTrainerStep"

Classes == { BaseClass, CustomClass }

\* feature names and feature specs of the transform outputs
Features == { "x", "y" }

Absent == "absent"

FeatureTypes == { "FixedLenFeature", "VarLenFeature" }

EmptyDict == [ f \in Features |-> Absent ]

\* the dict's keys
Keys(d) == { f \in Features : d[f] # Absent }

\* what is stored at the transform output locations: "t1" holds two
\* transformed features, "t2" holds none, and nothing is stored at "missing"
TransformLocations == { "t1", "t2" }

AllLocations == TransformLocations \cup { "missing" }

\* the transformed feature spec stored at a location
FeatureSpecAt(loc) ==
    IF loc = "t1" THEN [ f \in Features |-> IF f = "x" THEN "FixedLenFeature" ELSE "VarLenFeature" ]
    ELSE EmptyDict

\* the raw (untransformed) feature spec stored at a location
RawFeatureSpecAt(loc) ==
    IF loc = "t1" THEN [ f \in Features |-> IF f = "x" THEN "VarLenFeature" ELSE Absent ]
    ELSE [ f \in Features |-> IF f = "y" THEN "FixedLenFeature" ELSE Absent ]

\* the dict object the library keeps for a location
LibAddr(loc) == IF loc = "t1" THEN 1 ELSE 2

LibAddrs == { LibAddr(loc) : loc \in TransformLocations }

\* heap addresses: the library's dicts, one schema per step, one temporary
Addrs == 1 .. (Cardinality(TransformLocations) + Cardinality(StepIds) + 1)

FreeCell == [ used |-> FALSE, items |-> EmptyDict ]

DictCell(d) == [ used |-> TRUE, items |-> d ]

\* the lowest free address
NewAddr(h) == CHOOSE a \in Addrs : ~h[a].used /\ \A b \in Addrs : ~h[b].used => a <= b

\* file patterns of train_files / eval_files
FilePatterns == { None, Some(<< "train", sep, "*" >>) }

\* return values: None, a bound method, an object a subclass returns
NoneVal == [ kind |-> "None", self |-> 0, func |-> "" ]

BoundMethod(i, f) == [ kind |-> "method", self |-> i, func |-> f ]

TrainedObj == [ kind |-> "object", self |-> 0, func |-> "" ]

\* a step that is not constructed
Unbuilt ==
    [ built |-> FALSE, cls |-> "", serving_model_dir |-> None, transform_output |-> None,
      train_files |-> None, eval_files |-> None, schema |-> None, log_dir |-> None ]

\* attribute lookup of a method on an instance of class cls
Lookup(cls, name) ==
    IF cls = CustomClass /\ name = "run_fn" THEN "CustomTrainerStep.run_fn"
    ELSE IF name = "run_fn" THEN "BaseTrainerStep.run_fn"
    ELSE IF name = "input_fn" THEN "BaseTrainerStep.input_fn"
    ELSE IF name = "model_fn" THEN "BaseTrainerStep.model_fn"
    ELSE IF name = "get_run_fn" THEN "BaseTrainerStep.get_run_fn"
    ELSE IF name = "_get_serve_tf_examples_fn" THEN "BaseTrainerStep._get_serve_tf_examples_fn"
    ELSE "BaseTrainerStep._get_ce_eval_tf_examples_fn"

---------------------------------------------------------------------------
(* The constructor's two derivations *)

\* a plausible slip: the guard tests truthiness, so "" counts as not given
LogDirOf_truthy(serving_model_dir) ==
    IF ~IsNone(serving_model_dir) /\ Val(serving_model_dir) # << >>
    THEN Some(join(dirname(Val(serving_model_dir)), logs))
    ELSE None

\* self.log_dir
LogDirOf(serving_model_dir) ==
    IF ~IsNone(serving_model_dir)
    THEN Some(join(dirname(Val(serving_model_dir)), logs))
    ELSE None

\* a plausible slip: raw_feature_spec() is called instead
raw_feature_spec(h, loc, cached) ==
    [ ref |-> NewAddr(h), heap |-> [ h EXCEPT ![NewAddr(h)] = DictCell(RawFeatureSpecAt(loc)) ] ]

\* tft.TFTransformOutput(loc).transformed_feature_spec(): a dict holding the
\* spec stored at loc, either the one the library keeps or a new one
transformed_feature_spec(h, loc, cached) ==
    IF cached THEN [ ref |-> LibAddr(loc), heap |-> h ]
    ELSE [ ref |-> NewAddr(h), heap |-> [ h EXCEPT ![NewAddr(h)] = DictCell(FeatureSpecAt(loc)) ] ]

\* a plausible slip: no copy is made, the schema is the dict itself
copy_alias(h, a) == [ ref |-> a, heap |-> h ]

\* dict.copy(): a new dict with the same items
copy(h, a) ==
    [ ref |-> NewAddr(h), heap |-> [ h EXCEPT ![NewAddr(h)] = DictCell(h[a].items) ] ]

\* a plausible slip: self.schema = None runs after the inference
InferSchema_reset(h, transform_output, cached) == [ schema |-> None, heap |-> h ]

\* self.schema, and the heap with the schema's dict in it
InferSchema(h, transform_output, cached) ==
    IF ~IsNone(transform_output)
    THEN LET spec == transformed_feature_spec(h, Val(transform_output), cached)
             dup  == copy(spec.heap, spec.ref)
         IN  [ schema |-> Some(dup.ref), heap |-> dup.heap ]
    ELSE [ schema |-> None, heap |-> h ]

\* a dict nothing refers to any more is freed
Collect(h, st) ==
    [ a \in Addrs |->
        IF a \in LibAddrs \/ \E i \in StepIds : st[i].built /\ st[i].schema = Some(a)
        THEN h[a] ELSE FreeCell ]

\* a plausible slip: log_dir is derived from train_files
init_logdir_of_train(h, cls, serving_model_dir, transform_output, train_files, eval_files, cached) ==
    LET inferred == InferSchema(h, transform_output, cached)
    IN  [ step |-> [ built |-> TRUE, cls |-> cls,
                     serving_model_dir |-> serving_model_dir,
                     transform_output |-> transform_output,
                     train_files |-> train_files,
                     eval_files |-> eval_files,
                     schema |-> inferred.schema,
                     log_dir |-> LogDirOf(train_files) ],
          heap |-> inferred.heap ]

\* BaseTrainerStep.__init__: the new instance and the heap.  BaseStep.__init__
\* runs first and sets none of the six fields, which are assigned after it.
init(h, cls, serving_model_dir, transform_output, train_files, eval_files, cached) ==
    LET inferred == InferSchema(h, transform_output, cached)
    IN  [ step |-> [ built |-> TRUE, cls |-> cls,
                     serving_model_dir |-> serving_model_dir,
                     transform_output |-> transform_output,
                     train_files |-> train_files,
                     eval_files |-> eval_files,
                     schema |-> inferred.schema,
                     log_dir |-> LogDirOf(serving_model_dir) ],
          heap |-> inferred.heap ]

---------------------------------------------------------------------------
(* The methods: each gives the instance after the call, what is returned,  *)
(* whether it raised, and the bodies that ran                              *)

Outcome(self, ret, ran) == [ self |-> self, ret |-> ret, raised |-> FALSE, ran |-> ran ]

Raise(self, ran) == [ self |-> self, ret |-> NoneVal, raised |-> TRUE, ran |-> ran ]

\* a plausible slip: the hook refreshes the derived fields
run_fn_rederives(self) ==
    Outcome([ self EXCEPT !.log_dir = None ], NoneVal, << "BaseTrainerStep.run_fn" >>)

\* BaseTrainerStep.run_fn: pass
run_fn(self) == Outcome(self, NoneVal, << "BaseTrainerStep.run_fn" >>)

\* the run_fn of a subclass that overrides it: trains and returns its result
custom_run_fn(self) == Outcome(self, TrainedObj, << "CustomTrainerStep.run_fn" >>)

\* BaseTrainerStep.input_fn: pass
input_fn(self, file_pattern, tf_transform_output) ==
    Outcome(self, NoneVal, << "BaseTrainerStep.input_fn" >>)

\* BaseTrainerStep._get_serve_tf_examples_fn (static): pass
get_serve_tf_examples_fn(model, tf_transform_output) ==
    Outcome(Unbuilt, NoneVal, << "BaseTrainerStep._get_serve_tf_examples_fn" >>)

\* BaseTrainerStep._get_ce_eval_tf_examples_fn (static): pass
get_ce_eval_tf_examples_fn(model, tf_transform_output) ==
    Outcome(Unbuilt, NoneVal, << "BaseTrainerStep._get_ce_eval_tf_examples_fn" >>)

\* a plausible slip: the hook returns a model, as its docstring says
model_fn_returns(train_dataset, eval_dataset) ==
    Outcome(Unbuilt, TrainedObj, << "BaseTrainerStep.model_fn" >>)

\* BaseTrainerStep.model_fn (static): pass
model_fn(train_dataset, eval_dataset) ==
    Outcome(Unbuilt, NoneVal, << "BaseTrainerStep.model_fn" >>)

\* calling the function a bound method holds, on its instance
Invoke(func, self) ==
    IF func = "CustomTrainerStep.run_fn" THEN custom_run_fn(self) ELSE run_fn(self)

\* a plausible slip: the method is named through the class, not the instance
get_run_fn_static(i, self) ==
    Outcome(self, BoundMethod(i, "BaseTrainerStep.run_fn"), << "BaseTrainerStep.get_run_fn" >>)

\* BaseTrainerStep.get_run_fn: return self.run_fn
get_run_fn(i, self) ==
    Outcome(self, BoundMethod(i, Lookup(self.cls, "run_fn")), << "BaseTrainerStep.get_run_fn" >>)

\* the values passed as arguments to the hooks
ArgValues == { NoneVal, TrainedObj }

---------------------------------------------------------------------------
(* Actions *)

Called(op, i, out) == [ op |-> op, inst |-> i, ran |-> out.ran, ret |-> out.ret, raised |-> out.raised ]

Init ==
    /\ steps = [ i \in StepIds |-> Unbuilt ]
    /\ heap = [ a \in Addrs |->
                  IF a \in LibAddrs
                  THEN DictCell(FeatureSpecAt(CHOOSE loc \in TransformLocations : LibAddr(loc) = a))
                  ELSE FreeCell ]
    /\ held = NoneVal
    /\ last = Called("start", 0, Outcome(Unbuilt, NoneVal, << >>))

\* BaseTrainerStep(serving_model_dir, transform_output, train_files, eval_files)
\* bound to step i; reading a transform output that is not there raises
\* inside the constructor, and no instance comes to be
InitCall(i, cls, serving_model_dir, transform_output, train_files, eval_files, cached) ==
    /\ ~steps[i].built
    /\ IF ~IsNone(transform_output) /\ Val(transform_output) \notin TransformLocations
       THEN /\ last' = Called("__init__", i, Raise(Unbuilt, << "BaseTrainerStep.__init__" >>))
            /\ UNCHANGED << steps, heap, held >>
       ELSE LET made == init(heap, cls, serving_model_dir, transform_output,
                             train_files, eval_files, cached)
                st   == [ steps EXCEPT ![i] = made.step ]
            IN  /\ steps' = st
                /\ heap' = Collect(made.heap, st)
                /\ last' = Called("__init__", i, Outcome(made.step, NoneVal, << "BaseTrainerStep.__init__" >>))
                /\ UNCHANGED held

\* one step, constructed with any of the sample arguments
Construct ==
    \E cls \in Classes,
       smd \in { None } \cup { Some(p) : p \in SamplePaths },
       to \in { None } \cup { Some(loc) : loc \in AllLocations },
       tf \in FilePatterns, ef \in FilePatterns, cached \in BOOLEAN :
        InitCall(1, cls, smd, to, tf, ef, cached)

\* two steps, constructed in either order with independent arguments
ConstructPair ==
    \E i \in StepIds,
       smd \in { None } \cup { Some(p) : p \in PairPaths },
       to \in { None } \cup { Some(loc) : loc \in AllLocations },
       tf \in FilePatterns, ef \in FilePatterns, cached \in BOOLEAN :
        InitCall(i, BaseClass, smd, to, tf, ef, cached)

\* two steps, constructed from transform outputs
ConstructShared ==
    \E i \in StepIds, loc \in TransformLocations, cached \in BOOLEAN :
        InitCall(i, BaseClass, None, Some(loc), None, None, cached)

\* a method call on step i whose outcome is out
MethodCall(op, i, out) ==
    /\ steps' = [ steps EXCEPT ![i] = out.self ]
    /\ last' = Called(op, i, out)
    /\ UNCHANGED heap

CallRunFn ==
    \E i \in StepIds :
        /\ steps[i].built
        /\ MethodCall("run_fn", i, Invoke(Lookup(steps[i].cls, "run_fn"), steps[i]))
        /\ UNCHANGED held

CallInputFn ==
    \E i \in StepIds, file_pattern \in ArgValues, tf_transform_output \in ArgValues :
        /\ steps[i].built
        /\ MethodCall("input_fn", i, input_fn(steps[i], file_pattern, tf_transform_output))
        /\ UNCHANGED held

\* the static hooks need no instance
CallModelFn ==
    \E train_dataset \in ArgValues, eval_dataset \in ArgValues :
        /\ last' = Called("model_fn", 0, model_fn(train_dataset, eval_dataset))
        /\ UNCHANGED << steps, heap, held >>

CallServeFn ==
    \E model \in ArgValues, tf_transform_output \in ArgValues :
        /\ last' = Called("_get_serve_tf_examples_fn", 0,
                          get_serve_tf_examples_fn(model, tf_transform_output))
        /\ UNCHANGED << steps, heap, held >>

CallCeEvalFn ==
    \E model \in ArgValues, tf_transform_output \in ArgValues :
        /\ last' = Called("_get_ce_eval_tf_examples_fn", 0,
                          get_ce_eval_tf_examples_fn(model, tf_transform_output))
        /\ UNCHANGED << steps, heap, held >>

\* fn = step.get_run_fn(): the caller keeps what is returned
CallGetRunFn ==
    \E i \in StepIds :
        /\ steps[i].built
        /\ LET out == get_run_fn(i, steps[i])
           IN  /\ MethodCall("get_run_fn", i, out)
               /\ held' = out.ret

\* fn(): the caller calls what get_run_fn returned
CallHeld ==
    /\ held.kind = "method"
    /\ MethodCall("fn", held.self, Invoke(held.func, steps[held.self]))
    /\ UNCHANGED held

\* client code: step.schema[f] = v, or del step.schema[f] (v = Absent)
SchemaSetItem ==
    \E i \in StepIds, f \in Features, v \in FeatureTypes \cup { Absent } :
        /\ steps[i].built
        /\ ~IsNone(steps[i].schema)
        /\ heap[Val(steps[i].schema)].items[f] # v
        /\ heap' = [ heap EXCEPT ![Val(steps[i].schema)].items[f] = v ]
        /\ last' = Called("schema.__setitem__", i, Outcome(Unbuilt, NoneVal, << >>))
        /\ UNCHANGED << steps, held >>

\* the constructor alone, on every path
ConstructPath ==
    \E p \in Paths : InitCall(1, BaseClass, Some(p), None, None, None, FALSE)

Next ==
    \/ Construct
    \/ CallRunFn
    \/ CallInputFn
    \/ CallModelFn
    \/ CallServeFn
    \/ CallCeEvalFn
    \/ CallGetRunFn
    \/ CallHeld

NextPair == ConstructPair

NextAlias ==
    \/ ConstructShared
    \/ SchemaSetItem

NextPath == ConstructPath

\* one step and the class's own operations on it
Spec == Init /\ [][Next]_vars

\* two constructions
SpecPair == Init /\ [][NextPair]_vars

\* construction, and client code that changes the keys of a schema
SpecAlias == Init /\ [][NextAlias]_vars

\* construction over every serving_model_dir of at most MaxLen elements
SpecPath == Init /\ [][NextPath]_vars

---------------------------------------------------------------------------
(* What the claims are stated with *)

BuiltSteps == { i \in StepIds : steps[i].built }

\* the steps constructed with a serving_model_dir
ServingSteps == { i \in BuiltSteps : ~IsNone(steps[i].serving_model_dir) }

\* the steps constructed with a transform_output
TransformSteps == { i \in BuiltSteps : ~IsNone(steps[i].transform_output) }

\* the dict a step's schema refers to
SchemaDict(i) == heap[Val(steps[i].schema)]

NoSep(r) == \A k \in 1..Len(r) : r[k] # sep

\* r is separators followed by a name without separators
SepsThenName(r) ==
    \E k \in 0..Len(r) : /\ \A j \in 1..k : r[j] = sep
                         /\ \A j \in (k + 1)..Len(r) : r[j] # sep

\* d is what is written before the last component of p: a prefix of p that
\* leaves separators and then a name; it ends with a separator only when it
\* is nothing but separators (a root), and it does not cut a name in two
WrittenParent(d, p) ==
    LET r == SubSeq(p, Len(d) + 1, Len(p))
    IN  /\ Len(d) <= Len(p)
        /\ d = SubSeq(p, 1, Len(d))
        /\ SepsThenName(r)
        /\ (d = << >> \/ endswith(d, sep)) => NoSep(r)
        /\ endswith(d, sep) => AllSeps(d)
        /\ (d # << >> /\ ~endswith(d, sep)) => startswith(r, sep)

\* "logs" in directory d
LogsIn(d) ==
    IF d = << >> \/ endswith(d, sep) THEN d \o logs ELSE d \o << sep >> \o logs

\* the names of a path, in order
RECURSIVE Components(_)
Components(p) ==
    IF p = << >> THEN << >>
    ELSE IF p[1] = sep THEN Components(Tail(p))
    ELSE LET n    == IF NoSep(p) THEN Len(p)
                     ELSE (CHOOSE k \in 1..Len(p) : p[k] = sep /\ NoSep(SubSeq(p, 1, k - 1))) - 1
         IN  << SubSeq(p, 1, n) >> \o Components(SubSeq(p, n + 1, Len(p)))

\* the directory that contains the one with these names
Containing(c) == IF c = << >> THEN c ELSE SubSeq(c, 1, Len(c) - 1)

ModelDir == << sep, "a", sep, "b", sep, "model" >>

---------------------------------------------------------------------------
C7_LogDirIsSibling ==
    \A i \in ServingSteps :
        LET p == Val(steps[i].serving_model_dir)
            l == Val(steps[i].log_dir)
        IN  /\ Components(l) = Containing(Components(p)) \o << logs >>
            /\ startswith(l, sep) <=> startswith(p, sep)

(* C2: in every state, a constructed step has a schema exactly when it     *)
(* was constructed with a transform_output.                                *)
C2_SchemaIffTransformOutput ==
    \A i \in BuiltSteps : IsNone(steps[i].schema) <=> IsNone(steps[i].transform_output)

C2_Witness ==
    /\ steps[1].built
    /\ steps[1].transform_output = Some("t2")
    /\ ~IsNone(steps[1].schema)
    /\ Keys(SchemaDict(1).items) = {}
    /\ last.op = "run_fn"

(* C3: in every state, a constructed step has a log_dir exactly when it    *)
(* was constructed with a serving_model_dir.                               *)
C3_LogDirIffServingModelDir ==
    \A i \in BuiltSteps : IsNone(steps[i].log_dir) <=> IsNone(steps[i].serving_model_dir)

C3_Witness ==
    /\ steps[1].built
    /\ steps[1].serving_model_dir = Some(<< >>)
    /\ steps[1].log_dir = Some(logs)
    /\ last.op = "input_fn"

(* C4: the schema of a step constructed with a transform_output has        *)
(* exactly the features, with the same specs, that are stored at that      *)
(* location.                                                               *)
C4_SchemaIsFeatureSpec ==
    \A i \in TransformSteps :
        /\ ~IsNone(steps[i].schema)
        /\ SchemaDict(i).used
        /\ SchemaDict(i).items = FeatureSpecAt(Val(steps[i].transform_output))

C4_Witness ==
    /\ steps[1].built
    /\ steps[1].transform_output = Some("t1")
    /\ Keys(SchemaDict(1).items) = Features
    /\ SchemaDict(1).items["x"] = "FixedLenFeature"

BaseHookBodies ==
    { "BaseTrainerStep.run_fn", "BaseTrainerStep.input_fn", "BaseTrainerStep.model_fn",
      "BaseTrainerStep._get_serve_tf_examples_fn", "BaseTrainerStep._get_ce_eval_tf_examples_fn" }

C6_ImmutableAfterConstruction ==
    [][ \A i \in StepIds :
          steps[i].built =>
            /\ steps'[i] = steps[i]
            /\ ~IsNone(steps[i].schema) => heap'[Val(steps[i].schema)] = heap[Val(steps[i].schema)]
      ]_vars

C6_Witness ==
    /\ steps[1].built
    /\ ~IsNone(steps[1].schema)
    /\ steps[1].log_dir = Some(<< sep, "a", sep, "b", sep, "logs" >>)
    /\ last.op = "fn"
    /\ last.ran = << "BaseTrainerStep.run_fn" >>

(* C8: two steps constructed with the same serving_model_dir have the same *)
(* log_dir, and two steps constructed with the same transform_output have  *)
(* equal schemas, whatever their other arguments are.                      *)
C8_DerivationsIndependent ==
    \A i \in BuiltSteps, j \in BuiltSteps :
        /\ steps[i].serving_model_dir = steps[j].serving_model_dir
             => steps[i].log_dir = steps[j].log_dir
        /\ steps[i].transform_output = steps[j].transform_output
             => /\ IsNone(steps[i].schema) <=> IsNone(steps[j].schema)
                /\ ~IsNone(steps[i].schema) => SchemaDict(i).items = SchemaDict(j).items

C8_Witness ==
    /\ steps[1].built /\ steps[2].built
    /\ steps[1].serving_model_dir = steps[2].serving_model_dir
    /\ ~IsNone(steps[1].log_dir)
    /\ steps[1].transform_output = Some("t1")
    /\ IsNone(steps[2].transform_output)
    /\ steps[1].train_files # steps[2].train_files
    /\ steps[1].eval_files # steps[2].eval_files

(* C9: get_run_fn runs nothing but itself and returns a method bound to    *)
(* the step; calling what it returned runs the run_fn of the step's class  *)
(* (the base one returns None, the override returns its result).           *)
C9_GetRunFnReturnsOwnRunFn ==
    /\ last.op = "get_run_fn" =>
         /\ last.ran = << "BaseTrainerStep.get_run_fn" >>
         /\ ~last.raised
         /\ last.ret.kind = "method"
         /\ last.ret.self = last.inst
    /\ last.op = "fn" =>
         /\ steps[last.inst].cls = BaseClass =>
              last.ran = << "BaseTrainerStep.run_fn" >> /\ last.ret = NoneVal
         /\ steps[last.inst].cls = CustomClass =>
              last.ran = << "CustomTrainerStep.run_fn" >> /\ last.ret = TrainedObj

C9_Witness ==
    /\ last.op = "fn"
    /\ steps[last.inst].cls = CustomClass
    /\ last.ran = << "CustomTrainerStep.run_fn" >>
    /\ last.ret = TrainedObj

\* no schema is a dict of the library or the schema of another step
AliasFree ==
    \A i \in TransformSteps :
        /\ Val(steps[i].schema) \notin LibAddrs
        /\ \A j \in TransformSteps \ { i } : steps[j].schema # steps[i].schema

\* a change of one schema's keys leaves the library's dicts and the other
\* steps' schemas as they were
SetItemIsLocal ==
    last'.op = "schema.__setitem__" =>
        /\ \A a \in LibAddrs : heap'[a] = heap[a]
        /\ \A j \in TransformSteps \ { last'.inst } : heap'[Val(steps[j].schema)] = SchemaDict(j)

(* C10: a schema is a dict of its own: changing its keys changes neither   *)
(* the feature spec the transform output holds nor the schema of another   *)
(* step constructed from the same transform_output.                        *)
C10_SchemaIsCopy ==
    /\ [](AliasFree /\ \A loc \in TransformLocations : heap[LibAddr(loc)].items = FeatureSpecAt(loc))
    /\ [][SetItemIsLocal]_vars

C10_Witness ==
    /\ steps[1].built /\ steps[2].built
    /\ steps[1].transform_output = Some("t1")
    /\ steps[2].transform_output = Some("t1")
    /\ last.op = "schema.__setitem__"
    /\ last.inst = 1
    /\ Keys(SchemaDict(1).items) = { "y" }
    /\ SchemaDict(2).items = FeatureSpecAt("t1")
    /\ heap[LibAddr("t1")].items = FeatureSpecAt("t1")

====
